---- MODULE Spec2Model ----
(***************************************************************************)
(* A model of the decorator package (src/decorator.go): a Decorator holds  *)
(* lines, each with colour ranges and comments above and below it, and     *)
(* String() lays them out as rows of text.                                 *)
(*                                                                         *)
(* A string is a sequence of one-character strings.  The output of         *)
(* String() is the sequence of things written to the strings.Builder: one  *)
(* element per character, and one element per colour token (a token has    *)
(* no width on the terminal).  Indices of lines, comments and rows are     *)
(* 0-based as in the source; sequences are 1-based, so element k of the    *)
(* source is element k+1 here.                                             *)
(***************************************************************************)
EXTENDS Integers, Sequences, FiniteSets, TLC

VARIABLES
    lines,      \* Decorator.lines
    call,       \* the most recent call: its name, its arguments, its error
    out,        \* what the most recent call returned, if it was String()
    panicked,   \* the most recent call was String() and it panicked
    drawn,      \* what that String() drew on the comment rows, in order
    rowlog,     \* the rows that String() ended with a newline, in order
    prior       \* the String() calls made in a row, and the result of the one before

vars == <<lines, call, out, panicked, drawn, rowlog, prior>>

----------------------------------------------------------------------------
(* The styles (src/decorator.go:17-36).                                    *)

Normal == "ESC[0m"
FgMagenta == "ESC[35m"
BgMagenta == "ESC[45m"

\* The rune U+2502 (box drawings light vertical) that WriteRune writes: the
\* vertical connector.  It is one column wide, and it is not the '|' of the gutter.
Pipe == "U+2502"

(* The error values.                                                       *)

ErrNil == "nil"
ErrUnsupported == "string contains one of ['\\n', '\\t', '\\r'] which aren't supported"
ErrIndex == "index out of bounds"
ErrLineIndex == "line index out of bounds"
ErrCommentIndex == "comment index out of bounds"

----------------------------------------------------------------------------
(* Strings.                                                                *)

\* strings.ContainsAny(s, chars)
ContainsAny(s, chars) == \E i \in 1..Len(s) : s[i] \in chars

UnsupportedWithoutCR == {"\n", "\t"}

Unsupported == {"\n", "\t", "\r"}

\* s[lo:hi] is defined when 0 <= lo <= hi <= len(s); otherwise the slice
\* expression panics.
SliceOk(s, lo, hi) == 0 <= lo /\ lo <= hi /\ hi <= Len(s)

Slice(s, lo, hi) == SubSeq(s, lo + 1, hi)

Digit(d) ==
    CASE d = 0 -> "0" [] d = 1 -> "1" [] d = 2 -> "2" [] d = 3 -> "3"
      [] d = 4 -> "4" [] d = 5 -> "5" [] d = 6 -> "6" [] d = 7 -> "7"
      [] d = 8 -> "8" [] d = 9 -> "9"

\* The %d verb of fmt.Sprintf.
RECURSIVE Itoa(_)
Itoa(n) ==
    IF n < 0 THEN <<"-">> \o Itoa(-n)
    ELSE IF n < 10 THEN <<Digit(n)>>
    ELSE Itoa(n \div 10) \o <<Digit(n % 10)>>

----------------------------------------------------------------------------
(* Records.                                                                *)

LineColour(from, to, colour) == [From |-> from, To |-> to, Colour |-> colour]

commentInfo(at, text) == [at |-> at, text |-> text, colours |-> <<>>]

LineMetadata(fileName, lineNumber) ==
    [LineNumber |-> lineNumber, FileName |-> fileName, cachedPrefix |-> <<>>]

lineInfo(text, meta) ==
    [text |-> text, colours |-> <<>>, meta |-> meta,
     topComments |-> <<>>, bottomComments |-> <<>>]

generatePrefix(meta) ==
    IF meta.cachedPrefix # <<>> THEN meta
    ELSE [meta EXCEPT !.cachedPrefix =
              meta.FileName \o <<" ", "@", " ">> \o Itoa(meta.LineNumber)]

----------------------------------------------------------------------------
(* Writing to the builder.                                                 *)

writePadding(b, amount) == b \o [i \in 1..amount |-> " "]

\* writePrefix without the padding after the prefix.
writePrefixUnpadded(b, prefix, longest) ==
    b \o prefix \o <<" ", "|", " ">>

writePrefix(b, prefix, longest) ==
    writePadding(b \o prefix, longest - Len(prefix)) \o <<" ", "|", " ">>

\* sort.Slice with less(i, j) = colours[i].From < colours[j].From.  For a
\* slice of fewer than 7 elements every released sort.Slice is an insertion
\* sort: each element moves left while it is less than its left neighbour.
RECURSIVE insertByFrom(_, _)
insertByFrom(sorted, x) ==
    IF sorted = <<>> \/ ~(x.From < sorted[Len(sorted)].From)
    THEN Append(sorted, x)
    ELSE Append(insertByFrom(SubSeq(sorted, 1, Len(sorted) - 1), x),
                sorted[Len(sorted)])

\* The same, but an element also moves left past an equal one.
RECURSIVE insertByFromPastEqual(_, _)
insertByFromPastEqual(sorted, x) ==
    IF sorted = <<>> \/ ~(x.From <= sorted[Len(sorted)].From)
    THEN Append(sorted, x)
    ELSE Append(insertByFromPastEqual(SubSeq(sorted, 1, Len(sorted) - 1), x),
                sorted[Len(sorted)])

RECURSIVE sortSliceUnstable(_)
sortSliceUnstable(colours) ==
    IF colours = <<>> THEN <<>>
    ELSE insertByFromPastEqual(
             sortSliceUnstable(SubSeq(colours, 1, Len(colours) - 1)),
             colours[Len(colours)])

RECURSIVE sortSlice(_)
sortSlice(colours) ==
    IF colours = <<>> THEN <<>>
    ELSE insertByFrom(sortSlice(SubSeq(colours, 1, Len(colours) - 1)),
                      colours[Len(colours)])

\* The clamp of writeColoured: a range that starts before the paint cursor
\* starts at the cursor instead.
clampFrom(start, from) == IF start > from THEN start ELSE from

\* The loop of writeColoured and the tail after it.  The result is the
\* builder and whether a slice expression panicked.
RECURSIVE paint(_, _, _, _, _)
paint(b, text, colours, colourI, start) ==
    IF colourI < Len(colours)
    THEN LET colour == colours[colourI + 1]
             from == clampFrom(start, colour.From)
         IN  IF ~SliceOk(text, start, from) \/ ~SliceOk(text, from, colour.To)
             THEN [b |-> b, panicked |-> TRUE]
             ELSE paint(b \o Slice(text, start, from) \o <<colour.Colour>>
                          \o Slice(text, from, colour.To) \o <<Normal>>,
                        text, colours, colourI + 1, colour.To)
    ELSE IF start < Len(text)
         THEN [b |-> b \o Slice(text, start, Len(text)), panicked |-> FALSE]
         ELSE [b |-> b, panicked |-> FALSE]

\* The clamps of the loop of writeColoured made on the elements of the slice
\* instead of on a copy.
RECURSIVE clampedInPlace(_, _, _)
clampedInPlace(colours, colourI, start) ==
    IF colourI >= Len(colours) THEN colours
    ELSE LET colour == colours[colourI + 1] IN
         clampedInPlace(
           [colours EXCEPT ![colourI + 1].From = clampFrom(start, colour.From)],
           colourI + 1, colour.To)

writeColouredClampsInPlace(b, text, colours) ==
    LET sorted == sortSlice(colours)
        r == paint(b, text, sorted, 0, 0)
    IN  [b |-> r.b, colours |-> clampedInPlace(sorted, 0, 0),
         panicked |-> r.panicked]

\* writeColoured sorts the caller's slice in place, then paints.
writeColoured(b, text, colours) ==
    LET sorted == sortSlice(colours)
        r == paint(b, text, sorted, 0, 0)
    IN  [b |-> r.b, colours |-> sorted, panicked |-> r.panicked]

----------------------------------------------------------------------------
(* The state of one String() call: the builder, the lines (String() fills  *)
(* the prefix caches and sorts colour slices in place), whether it has     *)
(* panicked, the record of what it drew, and the locals of the comment     *)
(* loops.                                                                  *)

Drawing(i, side, j, k, glyph, col, width) ==
    [line |-> i - 1, side |-> side, row |-> j, k |-> k, glyph |-> glyph,
     col |-> col, width |-> width]

\* One connector glyph at the cursor.  (A comment that a row of the top side
\* pads to and then draws nothing for is recorded with the glyph "none".)
Glyph(s, b, i, side, j, k, glyph, cursor) ==
    [s EXCEPT !.b = b \o <<glyph>>,
              !.cursor = cursor + 1,
              !.drawn = Append(@, Drawing(i, side, j, k, glyph, cursor, 1))]

\* The test that skips a comment on a row: the cursor is already past its
\* column.
skipsAtColumn(cursor, at) == cursor >= at

skipsNever(cursor, at) == FALSE

skips(cursor, at) == cursor > at

\* mod := j % 3
phaseShifted(j) == (j + 1) % 3

phase(j) == j % 3

\* for k := commentsWritten: the comment the scan of a bottom row starts at.
scanStartZero(commentsWritten) == 0

scanStart(commentsWritten) == commentsWritten

\* The inner loop of writeBottomComments (lines 203-228), from comment k.
RECURSIVE bottomScan(_, _, _, _)
bottomScan(s, i, j, k) ==
    LET comments == s.lines[i].bottomComments IN
    IF s.panicked \/ k >= Len(comments) THEN s
    ELSE
      LET comment == comments[k + 1] IN
      IF skips(s.cursor, comment.at) THEN bottomScan(s, i, j, k + 1)
      ELSE
        LET b == writePadding(s.b, comment.at - s.cursor)
            cursor == comment.at
        IN
        IF k = s.commentsWritten /\ ~s.written
        THEN IF phase(j) = 0
             THEN bottomScan(Glyph(s, b, i, "bottom", j, k, Pipe, cursor), i, j, k + 1)
             ELSE IF phase(j) = 1
             THEN bottomScan(Glyph(s, b, i, "bottom", j, k, "v", cursor), i, j, k + 1)
             ELSE LET w == writeColoured(b, comment.text, comment.colours) IN
                  bottomScan(
                    [s EXCEPT !.written = TRUE,
                              !.commentsWritten = @ + 1,
                              !.b = w.b,
                              !.panicked = w.panicked,
                              !.lines[i].bottomComments[k + 1].colours = w.colours,
                              !.cursor = cursor + Len(comment.text),
                              !.drawn = Append(@, Drawing(i, "bottom", j, k, "text",
                                                          cursor, Len(comment.text)))],
                    i, j, k + 1)
        ELSE bottomScan(Glyph(s, b, i, "bottom", j, k, Pipe, cursor), i, j, k + 1)

\* The number of rows a side with n comments is given.
rowBudgetTwo(n) == n * 2

rowBudget(n) == n * 3

\* The outer loop of writeBottomComments, from row j.
RECURSIVE bottomRows(_, _, _, _)
bottomRows(s, i, longestPrefixLength, j) ==
    IF s.panicked \/ j >= rowBudget(Len(s.lines[i].bottomComments)) THEN s
    ELSE
      LET s1 == [s EXCEPT !.b = writePrefix(@, <<>>, longestPrefixLength),
                          !.cursor = 0,
                          !.written = FALSE]
          s2 == bottomScan(s1, i, j, scanStart(s1.commentsWritten))
          s3 == IF s2.panicked THEN s2
                ELSE [s2 EXCEPT !.b = @ \o <<"\n">>,
                                !.rowlog = Append(@, [line |-> i - 1,
                                                      side |-> "bottom", row |-> j])]
      IN  bottomRows(s3, i, longestPrefixLength, j + 1)

writeBottomComments(s, i, longestPrefixLength) ==
    bottomRows([s EXCEPT !.commentsWritten = 0], i, longestPrefixLength, 0)

\* The inner loop of writeTopComments (lines 243-263), from comment k.
RECURSIVE topScan(_, _, _, _)
topScan(s, i, j, k) ==
    LET comments == s.lines[i].topComments IN
    IF s.panicked \/ k >= Len(comments) THEN s
    ELSE
      LET comment == comments[k + 1] IN
      IF skips(s.cursor, comment.at) THEN topScan(s, i, j, k + 1)
      ELSE
        LET b == writePadding(s.b, comment.at - s.cursor)
            cursor == comment.at
        IN
        IF k = s.commentsWritten /\ ~s.written /\ phase(j) = 0
        THEN LET w == writeColoured(b, comment.text, comment.colours) IN
             topScan(
               [s EXCEPT !.written = TRUE,
                         !.commentsWritten = @ + 1,
                         !.b = w.b,
                         !.panicked = w.panicked,
                         !.lines[i].topComments[k + 1].colours = w.colours,
                         !.cursor = cursor + Len(comment.text),
                         !.drawn = Append(@, Drawing(i, "top", j, k, "text",
                                                     cursor, Len(comment.text)))],
               i, j, k + 1)
        ELSE IF k = s.commentsWritten - 1 /\ phase(j) = 1
        THEN topScan(Glyph(s, b, i, "top", j, k, "^", cursor), i, j, k + 1)
        ELSE IF k < s.commentsWritten
        THEN topScan(Glyph(s, b, i, "top", j, k, Pipe, cursor), i, j, k + 1)
        ELSE topScan([s EXCEPT !.b = b,
                               !.cursor = cursor,
                               !.drawn = Append(@, Drawing(i, "top", j, k, "none",
                                                           cursor, 0))],
                     i, j, k + 1)

\* The outer loop of writeTopComments, from row j.
RECURSIVE topRows(_, _, _, _)
topRows(s, i, longestPrefixLength, j) ==
    IF s.panicked \/ j >= rowBudget(Len(s.lines[i].topComments)) THEN s
    ELSE
      LET s1 == [s EXCEPT !.b = writePrefix(@, <<>>, longestPrefixLength),
                          !.cursor = 0,
                          !.written = FALSE]
          s2 == topScan(s1, i, j, 0)
          s3 == IF s2.panicked THEN s2
                ELSE [s2 EXCEPT !.b = @ \o <<"\n">>,
                                !.rowlog = Append(@, [line |-> i - 1,
                                                      side |-> "top", row |-> j])]
      IN  topRows(s3, i, longestPrefixLength, j + 1)

writeTopComments(s, i, longestPrefixLength) ==
    topRows([s EXCEPT !.commentsWritten = 0], i, longestPrefixLength, 0)

\* The row of the line itself (lines 170-173).
writeLine(s, i, longestPrefixLength) ==
    IF s.panicked THEN s
    ELSE
      LET line == s.lines[i]
          w == writeColoured(writePrefix(s.b, line.meta.cachedPrefix,
                                         longestPrefixLength),
                             line.text, line.colours)
      IN  IF w.panicked
          THEN [s EXCEPT !.panicked = TRUE, !.lines[i].colours = w.colours]
          ELSE [s EXCEPT !.b = w.b \o <<"\n">>,
                         !.lines[i].colours = w.colours,
                         !.rowlog = Append(@, [line |-> i - 1, side |-> "own",
                                               row |-> 0])]

\* The second loop of String() (lines 164-177), from line i.
RECURSIVE writeLines(_, _, _)
writeLines(s, i, longestPrefixLength) ==
    IF s.panicked \/ i > Len(s.lines) THEN s
    ELSE writeLines(
           writeBottomComments(
             writeLine(writeTopComments(s, i, longestPrefixLength),
                       i, longestPrefixLength),
             i, longestPrefixLength),
           i + 1, longestPrefixLength)

\* The first loop of String() (lines 154-161): the longest prefix among the
\* first n lines.
RECURSIVE longestPrefix(_, _)
longestPrefix(ls, n) ==
    IF n = 0 THEN 0
    ELSE LET rest == longestPrefix(ls, n - 1)
             len == Len(ls[n].meta.cachedPrefix)
         IN  IF len > rest THEN len ELSE rest

\* One whole String() call on the lines ls.
render(ls) ==
    LET prefixed == [i \in 1..Len(ls) |-> [ls[i] EXCEPT !.meta = generatePrefix(@)]]
        s0 == [b |-> <<>>, lines |-> prefixed, panicked |-> FALSE,
               drawn |-> <<>>, rowlog |-> <<>>,
               cursor |-> 0, written |-> FALSE, commentsWritten |-> 0]
    IN  writeLines(s0, 1, longestPrefix(prefixed, Len(prefixed)))

----------------------------------------------------------------------------
(* The calls.  Each records itself in call; a call that is not String()    *)
(* returns no string.                                                      *)

NoColour == LineColour(0, 0, "")
NoMeta == LineMetadata(<<>>, 0)

Called(op, line, comment, at, text, colour, meta, err) ==
    [op |-> op, line |-> line, comment |-> comment, at |-> at, text |-> text,
     colour |-> colour, meta |-> meta, err |-> err]

\* The lines without their prefix caches.
Uncached(ls) == [i \in 1..Len(ls) |-> [ls[i] EXCEPT !.meta.cachedPrefix = <<>>]]

\* prior: n, how many String() calls have been made in a row (2 stands for 2
\* or more); sorted, whether the first of them changed the order of a colour
\* slice; and, when n is 2, what the call before the latest one returned.
NoPrior == [n |-> 0, sorted |-> FALSE, out |-> <<>>, panicked |-> FALSE]

NoString ==
    /\ out' = <<>>
    /\ panicked' = FALSE
    /\ drawn' = <<>>
    /\ rowlog' = <<>>
    /\ prior' = NoPrior

AddLine(line, meta) ==
    /\ IF ContainsAny(line, Unsupported)
       THEN /\ call' = Called("AddLine", 0, 0, 0, line, NoColour, meta, ErrUnsupported)
            /\ lines' = lines
       ELSE /\ call' = Called("AddLine", 0, 0, 0, line, NoColour, meta, ErrNil)
            /\ lines' = Append(lines, lineInfo(line, meta))
    /\ NoString

\* AddBottomComment with the new comment put in front of the others.
AddBottomCommentPrepend(line, at, comment) ==
    /\ IF ContainsAny(comment, Unsupported)
       THEN /\ call' = Called("AddBottomComment", line, 0, at, comment, NoColour,
                              NoMeta, ErrUnsupported)
            /\ lines' = lines
       ELSE IF line < 0 \/ line >= Len(lines)
       THEN /\ call' = Called("AddBottomComment", line, 0, at, comment, NoColour,
                              NoMeta, ErrIndex)
            /\ lines' = lines
       ELSE /\ call' = Called("AddBottomComment", line, 0, at, comment, NoColour,
                              NoMeta, ErrNil)
            /\ lines' = [lines EXCEPT ![line + 1].bottomComments =
                                          <<commentInfo(at, comment)>> \o @]
    /\ NoString

AddBottomComment(line, at, comment) ==
    /\ IF ContainsAny(comment, Unsupported)
       THEN /\ call' = Called("AddBottomComment", line, 0, at, comment, NoColour,
                              NoMeta, ErrUnsupported)
            /\ lines' = lines
       ELSE IF line < 0 \/ line >= Len(lines)
       THEN /\ call' = Called("AddBottomComment", line, 0, at, comment, NoColour,
                              NoMeta, ErrIndex)
            /\ lines' = lines
       ELSE /\ call' = Called("AddBottomComment", line, 0, at, comment, NoColour,
                              NoMeta, ErrNil)
            /\ lines' = [lines EXCEPT ![line + 1].bottomComments =
                                          Append(@, commentInfo(at, comment))]
    /\ NoString

\* AddTopComment with the append made before the text is looked at.
AddTopCommentAppendFirst(line, at, comment) ==
    /\ IF line < 0 \/ line >= Len(lines)
       THEN /\ call' = Called("AddTopComment", line, 0, at, comment, NoColour,
                              NoMeta, ErrIndex)
            /\ lines' = lines
       ELSE /\ call' = Called("AddTopComment", line, 0, at, comment, NoColour,
                              NoMeta,
                              IF ContainsAny(comment, Unsupported)
                              THEN ErrUnsupported ELSE ErrNil)
            /\ lines' = [lines EXCEPT ![line + 1].topComments =
                                          Append(@, commentInfo(at, comment))]
    /\ NoString

AddTopComment(line, at, comment) ==
    /\ IF ContainsAny(comment, Unsupported)
       THEN /\ call' = Called("AddTopComment", line, 0, at, comment, NoColour,
                              NoMeta, ErrUnsupported)
            /\ lines' = lines
       ELSE IF line < 0 \/ line >= Len(lines)
       THEN /\ call' = Called("AddTopComment", line, 0, at, comment, NoColour,
                              NoMeta, ErrIndex)
            /\ lines' = lines
       ELSE /\ call' = Called("AddTopComment", line, 0, at, comment, NoColour,
                              NoMeta, ErrNil)
            /\ lines' = [lines EXCEPT ![line + 1].topComments =
                                          Append(@, commentInfo(at, comment))]
    /\ NoString

ColourLine(line, colour) ==
    /\ IF line < 0 \/ line >= Len(lines)
       THEN /\ call' = Called("ColourLine", line, 0, 0, <<>>, colour, NoMeta, ErrIndex)
            /\ lines' = lines
       ELSE /\ call' = Called("ColourLine", line, 0, 0, <<>>, colour, NoMeta, ErrNil)
            /\ lines' = [lines EXCEPT ![line + 1].colours = Append(@, colour)]
    /\ NoString

\* ColourBottomComment with the range given to the line instead.
ColourBottomCommentColoursLine(line, comment, colour) ==
    /\ IF line < 0 \/ line >= Len(lines)
       THEN /\ call' = Called("ColourBottomComment", line, comment, 0, <<>>, colour,
                              NoMeta, ErrLineIndex)
            /\ lines' = lines
       ELSE IF comment < 0 \/ comment >= Len(lines[line + 1].bottomComments)
       THEN /\ call' = Called("ColourBottomComment", line, comment, 0, <<>>, colour,
                              NoMeta, ErrCommentIndex)
            /\ lines' = lines
       ELSE /\ call' = Called("ColourBottomComment", line, comment, 0, <<>>, colour,
                              NoMeta, ErrNil)
            /\ lines' = [lines EXCEPT ![line + 1].colours = Append(@, colour)]
    /\ NoString

ColourBottomComment(line, comment, colour) ==
    /\ IF line < 0 \/ line >= Len(lines)
       THEN /\ call' = Called("ColourBottomComment", line, comment, 0, <<>>, colour,
                              NoMeta, ErrLineIndex)
            /\ lines' = lines
       ELSE IF comment < 0 \/ comment >= Len(lines[line + 1].bottomComments)
       THEN /\ call' = Called("ColourBottomComment", line, comment, 0, <<>>, colour,
                              NoMeta, ErrCommentIndex)
            /\ lines' = lines
       ELSE /\ call' = Called("ColourBottomComment", line, comment, 0, <<>>, colour,
                              NoMeta, ErrNil)
            /\ lines' = [lines EXCEPT
                           ![line + 1].bottomComments[comment + 1].colours =
                               Append(@, colour)]
    /\ NoString

ColourTopComment(line, comment, colour) ==
    /\ IF line < 0 \/ line >= Len(lines)
       THEN /\ call' = Called("ColourTopComment", line, comment, 0, <<>>, colour,
                              NoMeta, ErrLineIndex)
            /\ lines' = lines
       ELSE IF comment < 0 \/ comment >= Len(lines[line + 1].topComments)
       THEN /\ call' = Called("ColourTopComment", line, comment, 0, <<>>, colour,
                              NoMeta, ErrCommentIndex)
            /\ lines' = lines
       ELSE /\ call' = Called("ColourTopComment", line, comment, 0, <<>>, colour,
                              NoMeta, ErrNil)
            /\ lines' = [lines EXCEPT
                           ![line + 1].topComments[comment + 1].colours =
                               Append(@, colour)]
    /\ NoString

\* String().  A panic leaves what was cached and sorted before it and
\* returns nothing.
String ==
    \E s \in {render(lines)} :
    /\ call' = Called("String", 0, 0, 0, <<>>, NoColour, NoMeta, ErrNil)
    /\ lines' = s.lines
    /\ out' = IF s.panicked THEN <<>> ELSE s.b
    /\ panicked' = s.panicked
    /\ drawn' = s.drawn
    /\ rowlog' = s.rowlog
    /\ prior' = IF prior.n = 0
                THEN [n |-> 1, sorted |-> Uncached(s.lines) # Uncached(lines),
                      out |-> <<>>, panicked |-> FALSE]
                ELSE [n |-> 2, sorted |-> prior.sorted,
                      out |-> out, panicked |-> panicked]

----------------------------------------------------------------------------
(* The document API driven with small inputs: Spec.                        *)

\* The number of lines, comments and colour ranges a document may hold.
MaxItems == 3

LineTexts == {<<"a", "b">>, <<"a", "\n">>, <<"\t">>}
CommentTexts == {<<"x">>, <<"\r", "x">>}
Metas == {LineMetadata(<<"f">>, 5), LineMetadata(<<"m", "n">>, 69)}
Columns == {0, 1}
Ranges == {LineColour(0, 1, FgMagenta), LineColour(0, 2, BgMagenta),
           LineColour(1, 2, FgMagenta)}

commentSize(c) == 1 + Len(c.colours)

RECURSIVE commentsSize(_)
commentsSize(cs) ==
    IF cs = <<>> THEN 0 ELSE commentSize(Head(cs)) + commentsSize(Tail(cs))

RECURSIVE Size(_)
Size(ls) ==
    IF ls = <<>> THEN 0
    ELSE 1 + Len(Head(ls).colours) + commentsSize(Head(ls).topComments)
           + commentsSize(Head(ls).bottomComments) + Size(Tail(ls))

\* Line and comment indices to call with: every valid one, one below and
\* one above.  A call that is going to fail is made with one value for the
\* arguments that its checks do not read.
LineIndices == -1..Len(lines)
ValidLine(line) == 0 <= line /\ line < Len(lines)
TopIndices(line) ==
    IF ValidLine(line) THEN -1..Len(lines[line + 1].topComments) ELSE {0}
BottomIndices(line) ==
    IF ValidLine(line) THEN -1..Len(lines[line + 1].bottomComments) ELSE {0}
MetasFor(text) ==
    IF ContainsAny(text, Unsupported) THEN {LineMetadata(<<"f">>, 5)} ELSE Metas
ColumnsFor(line, text) ==
    IF ValidLine(line) /\ ~ContainsAny(text, Unsupported) THEN Columns ELSE {0}
RangesFor(line, comment, n) ==
    IF ValidLine(line) /\ 0 <= comment /\ comment < n
    THEN Ranges ELSE {LineColour(0, 1, FgMagenta)}

Init ==
    /\ lines = <<>>
    /\ call = Called("new", 0, 0, 0, <<>>, NoColour, NoMeta, ErrNil)
    /\ out = <<>>
    /\ panicked = FALSE
    /\ drawn = <<>>
    /\ rowlog = <<>>
    /\ prior = NoPrior

Next ==
    \/ \E line \in LineTexts : \E meta \in MetasFor(line) :
         AddLine(line, meta) /\ Size(lines') <= MaxItems
    \/ \E line \in LineIndices, comment \in CommentTexts :
         \E at \in ColumnsFor(line, comment) :
           AddBottomComment(line, at, comment) /\ Size(lines') <= MaxItems
    \/ \E line \in LineIndices, comment \in CommentTexts :
         \E at \in ColumnsFor(line, comment) :
           AddTopComment(line, at, comment) /\ Size(lines') <= MaxItems
    \/ \E line \in LineIndices : \E colour \in RangesFor(line, 0, 1) :
         ColourLine(line, colour) /\ Size(lines') <= MaxItems
    \/ \E line \in LineIndices : \E comment \in BottomIndices(line) :
         \E colour \in RangesFor(line, comment, Len(lines[line + 1].bottomComments)) :
           ColourBottomComment(line, comment, colour) /\ Size(lines') <= MaxItems
    \/ \E line \in LineIndices : \E comment \in TopIndices(line) :
         \E colour \in RangesFor(line, comment, Len(lines[line + 1].topComments)) :
           ColourTopComment(line, comment, colour) /\ Size(lines') <= MaxItems
    \/ String

Spec == Init /\ [][Next]_vars

----------------------------------------------------------------------------
(* The state after one line has been added and String() has been called.   *)

Rendered(text, meta) ==
    LET s == render(<<lineInfo(text, meta)>>) IN
    /\ lines = s.lines
    /\ call = Called("String", 0, 0, 0, <<>>, NoColour, NoMeta, ErrNil)
    /\ out = s.b
    /\ panicked = s.panicked
    /\ drawn = s.drawn
    /\ rowlog = s.rowlog
    /\ prior = [n |-> 1, sorted |-> FALSE, out |-> <<>>, panicked |-> FALSE]

(* writeColoured on one line with every list of ranges: SpecColour.        *)

\* The number of colour ranges on the line.
MaxRanges == 2

ColourText == <<"0", "1", "2">>
ColourMeta == LineMetadata(<<"f">>, 5)
Positions == 0..Len(ColourText)
Colours == {FgMagenta, BgMagenta}

InitColour == Rendered(ColourText, ColourMeta)

NextColour ==
    \/ \E from \in Positions, to \in Positions, colour \in Colours :
         /\ ColourLine(0, LineColour(from, to, colour))
         /\ Len(lines'[1].colours) <= MaxRanges
    \/ String

SpecColour == InitColour /\ [][NextColour]_vars

(* The comment rows of one line with every list of comments: SpecLayout.   *)

\* The number of comments on the line, above and below together.
MaxComments == 3

LayoutText == <<"a">>
LayoutMeta == LineMetadata(<<"f">>, 5)
LayoutColumns == {-1, 0, 1, 2}
LayoutTexts == {<<>>, <<"x", "y">>}

InitLayout == Rendered(LayoutText, LayoutMeta)

NextLayout ==
    \/ \E at \in LayoutColumns, comment \in LayoutTexts :
         /\ AddBottomComment(0, at, comment)
         /\ Len(lines'[1].topComments) + Len(lines'[1].bottomComments) <= MaxComments
    \/ \E at \in LayoutColumns, comment \in LayoutTexts :
         /\ AddTopComment(0, at, comment)
         /\ Len(lines'[1].topComments) + Len(lines'[1].bottomComments) <= MaxComments
    \/ String

SpecLayout == InitLayout /\ [][NextLayout]_vars

----------------------------------------------------------------------------
(* What the claims speak of.                                               *)

Returned == call.op = "String" /\ ~panicked

\* Every range of the list lies inside the text: 0 <= From <= To <= len(text).
RangesIn(text, colours) ==
    \A r \in 1..Len(colours) :
        /\ 0 <= colours[r].From
        /\ colours[r].From <= colours[r].To
        /\ colours[r].To <= Len(text)

CommentRangesIn(comments) ==
    \A k \in 1..Len(comments) : RangesIn(comments[k].text, comments[k].colours)

AllRangesIn(ls) ==
    \A i \in 1..Len(ls) :
        /\ RangesIn(ls[i].text, ls[i].colours)
        /\ CommentRangesIn(ls[i].topComments)
        /\ CommentRangesIn(ls[i].bottomComments)

Sides == {"top", "bottom"}
Connectors == {Pipe, "v", "^"}

\* The comments of side `side` of line i (0-based).
CommentsOf(i, side) ==
    IF side = "top" THEN lines[i + 1].topComments ELSE lines[i + 1].bottomComments

LineNumbers == 0..(Len(lines) - 1)

\* The places in drawn of what was drawn on side `side` of line i.
DrawnOn(i, side) ==
    {e \in 1..Len(drawn) : drawn[e].line = i /\ drawn[e].side = side}

\* The comments of the side whose text was emitted: the revealed counter at
\* the end of the side's rows.
Revealed(i, side) ==
    Cardinality({e \in DrawnOn(i, side) : drawn[e].glyph = "text"})

NonNegative(comments) == \A k \in 1..Len(comments) : comments[k].at >= 0

StrictlyIncreasing(comments) ==
    /\ NonNegative(comments)
    /\ \A k \in 2..Len(comments) : comments[k - 1].at < comments[k].at

----------------------------------------------------------------------------
(* C1: String() does not panic on a document all of whose colour ranges    *)
(* lie inside their texts (0 <= From <= To <= len(text)), whatever the     *)
(* number of ranges and however they overlap or nest.                      *)
C1_RenderIsTotal ==
    (call.op = "String" /\ AllRangesIn(lines)) => ~panicked

(* C2: when every column of a side is non-negative, the text of every one  *)
(* of its N comments has been emitted by the end of the side's rows: the   *)
(* revealed counter is N.                                                  *)
C2_EveryCommentRevealed ==
    Returned =>
        \A i \in LineNumbers : \A side \in Sides :
            NonNegative(CommentsOf(i, side))
                => Revealed(i, side) = Len(CommentsOf(i, side))

\* The rows of a document, from its numbers of comments alone.
SideRows(i, side, n) ==
    [j \in 1..(3 * n) |-> [line |-> i, side |-> side, row |-> j - 1]]

LineRows(i) ==
    SideRows(i, "top", Len(lines[i + 1].topComments))
        \o <<[line |-> i, side |-> "own", row |-> 0]>>
        \o SideRows(i, "bottom", Len(lines[i + 1].bottomComments))

RECURSIVE RowsOfFirst(_)
RowsOfFirst(n) == IF n = 0 THEN <<>> ELSE RowsOfFirst(n - 1) \o LineRows(n - 1)

Newlines(b) == {p \in 1..Len(b) : b[p] = "\n"}

(* C3: the output is, line by line in insertion order, 3*T rows above,     *)
(* the row of the line, 3*B rows below, each ended by one newline, and     *)
(* holds no other newline; T and B are the numbers of the line's top and   *)
(* bottom comments.                                                        *)
C3_RowCounts ==
    Returned =>
        /\ rowlog = RowsOfFirst(Len(lines))
        /\ Cardinality(Newlines(out)) = Len(rowlog)
        /\ out # <<>> => out[Len(out)] = "\n"

C3_Witness ==
    /\ Returned
    /\ \E i \in LineNumbers :
         /\ Len(lines[i + 1].topComments) >= 1
         /\ Len(lines[i + 1].bottomComments) >= 1

(* C4: below a line whose N bottom comments stand at strictly increasing   *)
(* non-negative columns there are 3N rows; the text of comment k is        *)
(* emitted once, on row 3k+2, starting at its column; no connector of      *)
(* another comment stands inside the columns of that text on that row;     *)
(* and String() does not panic.                                            *)
C4_BottomTextOnce ==
    call.op = "String" =>
        /\ ~panicked
        /\ \A i \in LineNumbers :
             LET comments == lines[i + 1].bottomComments IN
             StrictlyIncreasing(comments) =>
               /\ Cardinality({r \in 1..Len(rowlog) :
                      rowlog[r].line = i /\ rowlog[r].side = "bottom"})
                    = 3 * Len(comments)
               /\ \A k \in 0..(Len(comments) - 1) :
                    LET at == comments[k + 1].at
                        width == Len(comments[k + 1].text)
                        texts == {e \in DrawnOn(i, "bottom") :
                                     drawn[e].k = k /\ drawn[e].glyph = "text"}
                    IN  /\ Cardinality(texts) = 1
                        /\ \A e \in texts :
                             /\ drawn[e].row = 3 * k + 2
                             /\ drawn[e].col = at
                             /\ drawn[e].width = width
                        /\ \A f \in DrawnOn(i, "bottom") :
                             (drawn[f].row = 3 * k + 2 /\ drawn[f].k # k
                                 /\ drawn[f].glyph \in Connectors)
                               => ~(at <= drawn[f].col /\ drawn[f].col < at + width)

\* Three bottom comments at increasing columns, the last beyond the end of
\* the line's text, and one inside the text of the comment before it.
C4_Witness ==
    /\ call.op = "String"
    /\ \E i \in LineNumbers :
         LET comments == lines[i + 1].bottomComments IN
         /\ Len(comments) = 3
         /\ StrictlyIncreasing(comments)
         /\ comments[3].at > Len(lines[i + 1].text)
         /\ \E k \in 1..2 :
              comments[k + 1].at < comments[k].at + Len(comments[k].text)

(* C5: on every comment row of either side, for any columns and texts,     *)
(* what is drawn stands in disjoint columns: the cursor never moves left,  *)
(* whatever is drawn for comment k starts at its column, and no connector  *)
(* stands inside the text revealed on the row.                             *)
C5_NoCollision ==
    Returned =>
        \A i \in LineNumbers : \A side \in Sides :
          /\ \A e \in DrawnOn(i, side) :
               drawn[e].col = CommentsOf(i, side)[drawn[e].k + 1].at
          /\ \A e, f \in DrawnOn(i, side) :
               (e < f /\ drawn[e].row = drawn[f].row)
                 => /\ drawn[f].col >= drawn[e].col + drawn[e].width
                    /\ (drawn[e].glyph = "text" /\ drawn[f].glyph \in Connectors)
                         => ~(drawn[e].col <= drawn[f].col
                                /\ drawn[f].col < drawn[e].col + drawn[e].width)
                    /\ (drawn[f].glyph = "text" /\ drawn[e].glyph \in Connectors)
                         => ~(drawn[f].col <= drawn[e].col
                                /\ drawn[e].col < drawn[f].col + drawn[f].width)

\* A row holding a text and a connector, on a side whose columns are not
\* increasing.
C5_Witness ==
    /\ Returned
    /\ \E i \in LineNumbers : \E side \in Sides :
         /\ ~StrictlyIncreasing(CommentsOf(i, side))
         /\ NonNegative(CommentsOf(i, side))
         /\ \E e, f \in DrawnOn(i, side) :
              /\ drawn[e].row = drawn[f].row
              /\ drawn[e].glyph = "text"
              /\ drawn[e].width > 0
              /\ drawn[f].glyph \in Connectors

----------------------------------------------------------------------------
(* Reading the painted text back from the output of a document of one      *)
(* line without comments: the row of the line is all of the output.        *)

OneBareLine(ls) ==
    /\ Len(ls) = 1
    /\ ls[1].topComments = <<>>
    /\ ls[1].bottomComments = <<>>

IsToken(x) == x \in Colours \cup {Normal}
IsCharacter(x) == ~IsToken(x)

\* What follows the gutter, up to the newline.
Body(b, ls) == SubSeq(b, Len(ls[1].meta.cachedPrefix) + 4, Len(b) - 1)

\* The place in the body of character c (0-based) of the text.
PlaceOf(body, c) ==
    CHOOSE p \in 1..Len(body) :
        /\ IsCharacter(body[p])
        /\ Cardinality({q \in 1..(p - 1) : IsCharacter(body[q])}) = c

\* The token in force at place p: the nearest token before it, if that is
\* not the reset token.
TokenAt(body, p) ==
    LET before == {q \in 1..(p - 1) : IsToken(body[q])} IN
    IF before = {} THEN "none"
    ELSE LET q == CHOOSE m \in before : \A n \in before : n <= m IN
         IF body[q] = Normal THEN "none" ELSE body[q]

\* Every colour token is followed, after characters only, by the reset token.
EachSegmentReset(body) ==
    \A p \in 1..Len(body) :
        body[p] \in Colours =>
            \E q \in (p + 1)..Len(body) :
                /\ body[q] = Normal
                /\ \A m \in (p + 1)..(q - 1) : IsCharacter(body[m])

Covers(range, c) == range.From <= c /\ c < range.To

\* The token of the first range that covers c, in From-ascending order
\* with ties broken by the order of insertion.
Winner(colours, c) ==
    LET covering == {r \in 1..Len(colours) : Covers(colours[r], c)} IN
    IF covering = {} THEN "none"
    ELSE LET w == CHOOSE r \in covering :
                      \A q \in covering :
                          \/ colours[r].From < colours[q].From
                          \/ (colours[r].From = colours[q].From /\ r <= q)
         IN  colours[w].Colour

\* No two ranges of the list share a character.
NonOverlapping(text, colours) ==
    \A r, q \in 1..Len(colours) :
        r # q => ~\E c \in 0..(Len(text) - 1) :
                     Covers(colours[r], c) /\ Covers(colours[q], c)

(* C6: painting a text with ranges that lie inside it and of which some    *)
(* overlap gives every character the token of the first range that covers  *)
(* it, in From-ascending order with ties broken by insertion order, and    *)
(* follows every painted segment with the reset token.                     *)
C6_EarlierStartWins ==
    [][(call'.op = "String" /\ OneBareLine(lines)
            /\ RangesIn(lines[1].text, lines[1].colours)
            /\ ~NonOverlapping(lines[1].text, lines[1].colours))
         => /\ ~panicked'
            /\ LET body == Body(out', lines') IN
               /\ SelectSeq(body, IsCharacter) = lines[1].text
               /\ EachSegmentReset(body)
               /\ \A c \in 0..(Len(lines[1].text) - 1) :
                    TokenAt(body, PlaceOf(body, c)) = Winner(lines[1].colours, c)
      ]_vars

(* C7: painting a text with ranges that lie inside it and share no          *)
(* character, in any order, emits every character once and in order, the    *)
(* characters of each range after its token and before the reset token,     *)
(* the others unpainted.                                                    *)
C7_DisjointRangesPainted ==
    (call.op = "String" /\ OneBareLine(lines)
        /\ RangesIn(lines[1].text, lines[1].colours)
        /\ NonOverlapping(lines[1].text, lines[1].colours))
      => /\ ~panicked
         /\ LET body == Body(out, lines) IN
            /\ SelectSeq(body, IsCharacter) = lines[1].text
            /\ EachSegmentReset(body)
            /\ Cardinality({p \in 1..Len(body) : body[p] = Normal})
                 = Len(lines[1].colours)
            /\ \A c \in 0..(Len(lines[1].text) - 1) :
                 TokenAt(body, PlaceOf(body, c)) = Winner(lines[1].colours, c)

----------------------------------------------------------------------------
(* C8: a call that returns an error leaves the document as it was.         *)
C8_ErrorLeavesDocument ==
    [][call'.err # ErrNil => lines' = lines]_vars

\* A call has failed on a document that holds a comment.
C8_Witness ==
    /\ call.err # ErrNil
    /\ \E i \in LineNumbers : \E side \in Sides : CommentsOf(i, side) # <<>>

\* When a call fails, from its arguments and the document it is made on.
HasControl(text) == \E p \in 1..Len(text) : text[p] \in {"\n", "\t", "\r"}

Within(x, n) == 0 <= x /\ x < n

Failed(c) == c.err # ErrNil

C9_Step ==
    /\ call'.op = "AddLine" => (Failed(call') <=> HasControl(call'.text))
    /\ call'.op \in {"AddTopComment", "AddBottomComment"}
         => (Failed(call') <=>
                (HasControl(call'.text) \/ ~Within(call'.line, Len(lines))))
    /\ call'.op = "ColourLine"
         => (Failed(call') <=> ~Within(call'.line, Len(lines)))
    /\ call'.op = "ColourTopComment"
         => (Failed(call') <=>
                (\/ ~Within(call'.line, Len(lines))
                 \/ ~Within(call'.comment, Len(lines[call'.line + 1].topComments))))
    /\ call'.op = "ColourBottomComment"
         => (Failed(call') <=>
                (\/ ~Within(call'.line, Len(lines))
                 \/ ~Within(call'.comment, Len(lines[call'.line + 1].bottomComments))))

NoControlStored ==
    \A i \in LineNumbers :
        /\ ~HasControl(lines[i + 1].text)
        /\ \A side \in Sides : \A k \in 1..Len(CommentsOf(i, side)) :
             ~HasControl(CommentsOf(i, side)[k].text)

(* C9: AddLine fails exactly when its text holds a newline, a tab or a      *)
(* carriage return; AddTopComment and AddBottomComment exactly when the     *)
(* comment holds one or the line index is outside [0, number of lines);     *)
(* ColourLine exactly when the line index is outside; ColourTopComment and  *)
(* ColourBottomComment exactly when the line index is outside or the        *)
(* comment index is outside [0, number of comments on that side of the      *)
(* line).  So no stored text ever holds one of the three characters.        *)
C9_FailsExactlyWhen == [][C9_Step]_vars /\ []NoControlStored

\* A comment with a carriage return has been refused on a valid line that
\* holds a comment.
C9_Witness ==
    /\ call.op \in {"AddTopComment", "AddBottomComment"}
    /\ call.err = ErrUnsupported
    /\ Within(call.line, Len(lines))
    /\ \E side \in Sides : CommentsOf(call.line, side) # <<>>

(* C10: of two String() calls in a row the second returns what the first   *)
(* returned (or panics as the first did).                                  *)
C10_StringTwice ==
    prior.n = 2 => (out = prior.out /\ panicked = prior.panicked)

\* Two calls in a row, the first of which reordered a colour slice.
C10_Witness ==
    /\ prior.n = 2
    /\ prior.sorted
    /\ Returned
    /\ out # <<>>

----------------------------------------------------------------------------
\* The comment list `after` holds, at every index of `before`, a comment of
\* the same column and text.
KeepsComments(before, after) ==
    /\ Len(after) >= Len(before)
    /\ \A k \in 1..Len(before) :
         /\ after[k].at = before[k].at
         /\ after[k].text = before[k].text

C11_Step ==
    /\ Len(lines') >= Len(lines)
    /\ \A i \in 1..Len(lines) :
         /\ lines'[i].text = lines[i].text
         /\ KeepsComments(lines[i].topComments, lines'[i].topComments)
         /\ KeepsComments(lines[i].bottomComments, lines'[i].bottomComments)

(* C11: over any sequence of Add*, Colour* and String() calls the list of  *)
(* lines and the top and bottom comment lists of each line only grow at    *)
(* the end: what is stored at index i stays at index i with the same text  *)
(* and column, so Colour*Comment(line, i, ...) addresses the i-th comment  *)
(* added to that side.                                                     *)
C11_AppendOnly == [][C11_Step]_vars

\* A second comment has been added to a side whose first comment stands at
\* another column: the new one is last and the first is where it was.
C11_Witness ==
    /\ call.op \in {"AddTopComment", "AddBottomComment"}
    /\ call.err = ErrNil
    /\ \E side \in Sides :
         LET comments == CommentsOf(call.line, side) IN
         /\ call.op = (IF side = "top" THEN "AddTopComment" ELSE "AddBottomComment")
         /\ Len(comments) = 2
         /\ comments[2] = commentInfo(call.at, call.text)
         /\ comments[1].at # call.at

----------------------------------------------------------------------------
(* The gutters of the output, read back row by row.                        *)

Spaces(n) == [p \in 1..n |-> " "]

\* "<fileName> @ <lineNumber>"
PrefixText(meta) == meta.FileName \o <<" ", "@", " ">> \o Itoa(meta.LineNumber)

\* W: the greatest length of a prefix over all lines.
Widest ==
    CHOOSE w \in {0} \cup {Len(PrefixText(lines[i].meta)) : i \in 1..Len(lines)} :
        \A i \in 1..Len(lines) : w >= Len(PrefixText(lines[i].meta))

\* The place of the newline that ends row r (rows from 1).
RowEnd(r) ==
    CHOOSE p \in Newlines(out) :
        Cardinality({q \in Newlines(out) : q <= p}) = r

RowStart(r) == IF r = 1 THEN 1 ELSE RowEnd(r - 1) + 1

\* Row r starts with the gutter g.
StartsWith(r, g) ==
    /\ RowStart(r) + Len(g) <= RowEnd(r)
    /\ SubSeq(out, RowStart(r), RowStart(r) + Len(g) - 1) = g

Bar == <<" ", "|", " ">>

\* The gutters of the comment rows: W spaces and the bar.
CommentGutters ==
    \A r \in 1..Len(rowlog) :
        rowlog[r].side # "own" => StartsWith(r, Spaces(Widest) \o Bar)

\* C12 as stated, with the spaces before the prefix.
C12_SpacesBeforePrefix ==
    Returned =>
        /\ CommentGutters
        /\ \A r \in 1..Len(rowlog) :
             rowlog[r].side = "own" =>
               LET prefix == PrefixText(lines[rowlog[r].line + 1].meta) IN
               StartsWith(r, Spaces(Widest - Len(prefix)) \o prefix \o Bar)

(* C12: every row of the output starts with a gutter of W+3 characters, W  *)
(* the greatest length of "<fileName> @ <lineNumber>" over all the lines:  *)
(* on the row of a line, the prefix of the line, then spaces up to width   *)
(* W, then " | "; on every comment row, W spaces, then " | ".              *)
C12_Gutter ==
    Returned =>
        /\ CommentGutters
        /\ \A r \in 1..Len(rowlog) :
             rowlog[r].side = "own" =>
               LET prefix == PrefixText(lines[rowlog[r].line + 1].meta) IN
               StartsWith(r, prefix \o Spaces(Widest - Len(prefix)) \o Bar)

\* Two lines with prefixes of different lengths, the shorter of them with a
\* comment.
C12_Witness ==
    /\ Returned
    /\ \E i, n \in LineNumbers :
         /\ Len(PrefixText(lines[i + 1].meta)) < Len(PrefixText(lines[n + 1].meta))
         /\ \E side \in Sides : CommentsOf(i, side) # <<>>

----------------------------------------------------------------------------
(* The rows of one side, read from the record of what was drawn.           *)

\* What was drawn for comment k on row j of side `side` of line i.
DrawnFor(i, side, j, k) ==
    {e \in DrawnOn(i, side) : drawn[e].row = j /\ drawn[e].k = k}

\* Exactly the glyph `glyph` was drawn for comment k on that row, at the
\* column of the comment.
Draws(i, side, j, k, glyph) ==
    /\ DrawnFor(i, side, j, k) # {}
    /\ \A e \in DrawnFor(i, side, j, k) :
         /\ drawn[e].glyph = glyph
         /\ drawn[e].col = CommentsOf(i, side)[k + 1].at

\* Neither a text nor a connector was drawn for comment k on that row.
DrawsNothing(i, side, j, k) ==
    \A e \in DrawnFor(i, side, j, k) : drawn[e].glyph = "none"

\* The revealed counter of the side at the end of row j.
RevealedBy(i, side, j) ==
    Cardinality({e \in DrawnOn(i, side) :
                    drawn[e].glyph = "text" /\ drawn[e].row <= j})

\* The rows of a side with n comments, and its comments, both from 0.
RowsOf(n) == 0..(3 * n - 1)
Indices(comments) == 0..(Len(comments) - 1)

\* On row j of the bottom side the text of an earlier comment is revealed
\* and reaches beyond the column of comment k.
Overlaid(comments, j, k) ==
    /\ j % 3 = 2
    /\ comments[k + 1].at < comments[j \div 3 + 1].at + Len(comments[j \div 3 + 1].text)

\* C13 as stated: the connector of a later comment on every earlier row.
C13_ConnectorOnEveryEarlierRow ==
    Returned =>
        \A i \in LineNumbers :
          LET comments == CommentsOf(i, "bottom") IN
          StrictlyIncreasing(comments) =>
            \A k \in Indices(comments) : \A j \in 0..(3 * k - 1) :
                Draws(i, "bottom", j, k, Pipe)

(* C13: on the bottom side with comments at strictly increasing columns,   *)
(* on every row before the first of the three rows of comment k a vertical *)
(* connector is drawn at the column of k, except on a row on which the     *)
(* text of an earlier comment is revealed and reaches beyond that column:  *)
(* on such a row nothing is drawn for k.                                   *)
C13_ConnectorUnlessOverlaid ==
    Returned =>
        \A i \in LineNumbers :
          LET comments == CommentsOf(i, "bottom") IN
          StrictlyIncreasing(comments) =>
            \A k \in Indices(comments) : \A j \in 0..(3 * k - 1) :
                IF Overlaid(comments, j, k)
                THEN DrawnFor(i, "bottom", j, k) = {}
                ELSE Draws(i, "bottom", j, k, Pipe)

\* Increasing columns with a row on which a text is revealed and a later
\* connector stands right of it, and a row on which a text is revealed and
\* reaches beyond the column of a later comment.
C13_Witness ==
    /\ Returned
    /\ \E i \in LineNumbers :
         LET comments == CommentsOf(i, "bottom") IN
         /\ StrictlyIncreasing(comments)
         /\ \E k \in Indices(comments) : \E j \in 0..(3 * k - 1) :
              /\ j % 3 = 2
              /\ ~Overlaid(comments, j, k)
              /\ Draws(i, "bottom", j, k, Pipe)
         /\ \E k \in Indices(comments) : \E j \in 0..(3 * k - 1) :
              Overlaid(comments, j, k)

\* C14 as stated: a revealed bottom comment keeps a connector on every
\* later row.
C14_RevealedKeepsConnector ==
    Returned =>
        \A i \in LineNumbers :
          LET comments == CommentsOf(i, "bottom") IN
          \A e \in DrawnOn(i, "bottom") :
            drawn[e].glyph = "text" =>
              \A j \in RowsOf(Len(comments)) :
                j > drawn[e].row => Draws(i, "bottom", j, drawn[e].k, Pipe)

(* C14: on the bottom side, on every row after the one on which the text   *)
(* of a comment has been revealed, nothing is drawn for that comment and   *)
(* it does not move the row cursor: what is drawn on a row is drawn for    *)
(* comments with index >= the revealed counter at the start of the row.    *)
C14_RevealedDrawsNothing ==
    Returned =>
        \A i \in LineNumbers :
          /\ \A e, f \in DrawnOn(i, "bottom") :
               (drawn[e].glyph = "text" /\ drawn[f].k = drawn[e].k)
                  => drawn[f].row <= drawn[e].row
          /\ \A f \in DrawnOn(i, "bottom") :
               drawn[f].k >= RevealedBy(i, "bottom", drawn[f].row - 1)

\* A bottom side on which a text has been revealed and a later row draws
\* for a later comment.
C14_Witness ==
    /\ Returned
    /\ \E i \in LineNumbers : \E e, f \in DrawnOn(i, "bottom") :
         /\ drawn[e].glyph = "text"
         /\ drawn[f].row > drawn[e].row
         /\ drawn[f].k > drawn[e].k
         /\ CommentsOf(i, "bottom")[drawn[f].k + 1].at
              > CommentsOf(i, "bottom")[drawn[e].k + 1].at

(* C15: on the bottom side, for any non-negative columns in any order of   *)
(* insertion, row 3k draws a vertical connector at the column of comment   *)
(* k, row 3k+1 the arrow 'v' at that column and row 3k+2 emits its text at *)
(* that column; the revealed counter after row j is floor((j+1)/3).        *)
C15_BottomPhases ==
    Returned =>
        \A i \in LineNumbers :
          LET comments == CommentsOf(i, "bottom") IN
          NonNegative(comments) =>
            /\ \A k \in Indices(comments) :
                 /\ Draws(i, "bottom", 3 * k, k, Pipe)
                 /\ Draws(i, "bottom", 3 * k + 1, k, "v")
                 /\ Draws(i, "bottom", 3 * k + 2, k, "text")
            /\ \A j \in RowsOf(Len(comments)) :
                 RevealedBy(i, "bottom", j) = (j + 1) \div 3

\* Three bottom comments whose columns fall from each to the next.
C15_Witness ==
    /\ Returned
    /\ \E i \in LineNumbers :
         LET comments == CommentsOf(i, "bottom") IN
         /\ Len(comments) = 3
         /\ NonNegative(comments)
         /\ comments[1].at > comments[2].at
         /\ comments[2].at > comments[3].at
         /\ comments[1].text # <<>>

(* C16: on the top side with N comments at strictly increasing columns,    *)
(* comment k draws nothing on the rows before 3k, emits its text on row 3k *)
(* only, draws the arrow '^' at its column on row 3k+1 only and a vertical *)
(* connector at its column on every row from 3k+2 to 3N-1; the revealed    *)
(* counter goes up by one on each row with row mod 3 = 0 and on no other.  *)
C16_TopPhases ==
    Returned =>
        \A i \in LineNumbers :
          LET comments == CommentsOf(i, "top") IN
          StrictlyIncreasing(comments) =>
            /\ \A k \in Indices(comments) : \A j \in RowsOf(Len(comments)) :
                 IF j < 3 * k THEN DrawsNothing(i, "top", j, k)
                 ELSE IF j = 3 * k THEN Draws(i, "top", j, k, "text")
                 ELSE IF j = 3 * k + 1 THEN Draws(i, "top", j, k, "^")
                 ELSE Draws(i, "top", j, k, Pipe)
            /\ \A j \in RowsOf(Len(comments)) :
                 RevealedBy(i, "top", j) - RevealedBy(i, "top", j - 1)
                    = (IF j % 3 = 0 THEN 1 ELSE 0)

\* Three top comments at increasing columns, the first with a text.
C16_Witness ==
    /\ Returned
    /\ \E i \in LineNumbers :
         LET comments == CommentsOf(i, "top") IN
         /\ Len(comments) = 3
         /\ StrictlyIncreasing(comments)
         /\ comments[1].text # <<>>

----------------------------------------------------------------------------
(* What a call leaves alone.                                               *)

\* Every line but line `line` is what it was.
OtherLinesKept(line) ==
    /\ Len(lines') = Len(lines)
    /\ \A i \in 1..Len(lines) : i # line + 1 => lines'[i] = lines[i]

\* `after` is `before` with the range appended to the colours of comment
\* `comment` and nothing else changed.
OneCommentColoured(before, after, comment, colour) ==
    /\ Len(after) = Len(before)
    /\ \A k \in 1..Len(before) :
         IF k = comment + 1
         THEN /\ after[k].at = before[k].at
              /\ after[k].text = before[k].text
              /\ after[k].colours = before[k].colours \o <<colour>>
         ELSE after[k] = before[k]

C17_Step ==
    call'.err = ErrNil =>
      LET before == lines[call'.line + 1]
          after == lines'[call'.line + 1]
      IN
      /\ call'.op = "ColourBottomComment" =>
           /\ OtherLinesKept(call'.line)
           /\ after.text = before.text
           /\ after.meta = before.meta
           /\ after.colours = before.colours
           /\ after.topComments = before.topComments
           /\ OneCommentColoured(before.bottomComments, after.bottomComments,
                                 call'.comment, call'.colour)
      /\ call'.op = "ColourTopComment" =>
           /\ OtherLinesKept(call'.line)
           /\ after.text = before.text
           /\ after.meta = before.meta
           /\ after.colours = before.colours
           /\ after.bottomComments = before.bottomComments
           /\ OneCommentColoured(before.topComments, after.topComments,
                                 call'.comment, call'.colour)
      /\ call'.op = "ColourLine" =>
           /\ OtherLinesKept(call'.line)
           /\ after.text = before.text
           /\ after.meta = before.meta
           /\ after.colours = before.colours \o <<call'.colour>>
           /\ after.topComments = before.topComments
           /\ after.bottomComments = before.bottomComments

Count(colours, r) == Cardinality({p \in 1..Len(colours) : colours[p] = r})

\* The two lists hold the same ranges the same number of times.
SameRanges(before, after) ==
    /\ Len(after) = Len(before)
    /\ \A p \in 1..Len(before) :
         Count(after, before[p]) = Count(before, before[p])

SameComments(before, after) ==
    /\ Len(after) = Len(before)
    /\ \A k \in 1..Len(before) :
         /\ after[k].at = before[k].at
         /\ after[k].text = before[k].text
         /\ SameRanges(before[k].colours, after[k].colours)

C18_Step ==
    call'.op = "String" =>
      /\ Len(lines') = Len(lines)
      /\ \A i \in 1..Len(lines) :
           /\ lines'[i].text = lines[i].text
           /\ lines'[i].meta.FileName = lines[i].meta.FileName
           /\ lines'[i].meta.LineNumber = lines[i].meta.LineNumber
           /\ SameRanges(lines[i].colours, lines'[i].colours)
           /\ SameComments(lines[i].topComments, lines'[i].topComments)
           /\ SameComments(lines[i].bottomComments, lines'[i].bottomComments)

(* C18: String() leaves the number of lines, the text of every line and    *)
(* comment, the column of every comment, the number of comments of each    *)
(* side and the ranges of every colour list, counted with repetitions, as  *)
(* they were: only the cached prefix and the order of the ranges within a  *)
(* colour list may differ.                                                 *)
C18_StringFrame == [][C18_Step]_vars

\* A first String() that returned, cached a prefix and reordered a colour
\* list.
C18_Witness ==
    /\ Returned
    /\ prior.n = 1
    /\ prior.sorted
    /\ \E i \in 1..Len(lines) :
         /\ lines[i].meta.cachedPrefix # <<>>
         /\ Len(lines[i].colours) >= 2

----------------------------------------------------------------------------
\* The comments of the side at negative columns.
Negative(comments) == {k \in Indices(comments) : comments[k + 1].at < 0}

(* C19: AddTopComment and AddBottomComment take a negative column without  *)
(* an error; neither the text nor a connector of such a comment is drawn   *)
(* on any row of its side, and no comment added to the side after it has   *)
(* its text emitted: the revealed counter does not pass it.                *)
C19_NegativeColumn ==
    /\ (/\ call.op \in {"AddTopComment", "AddBottomComment"}
        /\ call.at < 0
        /\ ~HasControl(call.text)
        /\ Within(call.line, Len(lines)))
         => /\ call.err = ErrNil
            /\ LET comments == CommentsOf(call.line,
                                   IF call.op = "AddTopComment"
                                   THEN "top" ELSE "bottom")
               IN  /\ comments # <<>>
                   /\ comments[Len(comments)].at = call.at
                   /\ comments[Len(comments)].text = call.text
    /\ Returned =>
         \A i \in LineNumbers : \A side \in Sides :
           LET comments == CommentsOf(i, side) IN
           \A n \in Negative(comments) :
             /\ \A e \in DrawnOn(i, side) :
                  /\ drawn[e].k = n => drawn[e].glyph = "none"
                  /\ drawn[e].glyph = "text" => drawn[e].k < n
             /\ Revealed(i, side) <= n

\* A side of three comments, the second at a negative column: the first is
\* revealed, a connector is drawn for the third, and its text is not.
C19_Witness ==
    /\ Returned
    /\ \E i \in LineNumbers : \E side \in Sides :
         LET comments == CommentsOf(i, side) IN
         /\ Len(comments) = 3
         /\ Negative(comments) = {1}
         /\ Revealed(i, side) = 1
         /\ \E e \in DrawnOn(i, side) :
              drawn[e].k = 2 /\ drawn[e].glyph = Pipe

====
